---- MODULE Spec2Model ----
(***************************************************************************)
(* fastapi-mongo-admin: cursor / offset pagination and bulk delete         *)
(* (fastapi_mongo_admin/pagination.py, services.py), the query normaliser  *)
(* convert_object_ids_in_query (utils.py), schema inference (schema.py,    *)
(* router.py), the result cache (cache.py) and the rate limit              *)
(* (middleware.py).                                                        *)
(***************************************************************************)
EXTENDS Integers, Sequences, FiniteSets, TLC

\* ------------------------------------------------------------------ bounds
MaxId == 3
MaxValue == 2
MaxLimit == 2
MaxSkip == 1
MaxListLen == 2
MaxWrites == 1
MaxTime == 3
MaxRuns == 2
MaxRequests == 4

\* ------------------------------------------------------- program constants
LimitCeiling == 200
ObjectIdHexLen == 24

\* ------------------------------------------------------------ Python values
None == [t |-> "none"]
PyInt(i) == [t |-> "int", i |-> i]
PyStr(s) == [t |-> "str", s |-> s]
PyBool(b) == [t |-> "bool", b |-> b]
ObjectId(n) == [t |-> "oid", o |-> n]
Datetime(n) == [t |-> "date", d |-> n]
PyDict(f) == [t |-> "dict", kv |-> f]
PyList(s) == [t |-> "list", l |-> s]

EmptyDict == <<>>

\* d[k] = v on a copy of the mapping d
Put(d, k, v) == [x \in (DOMAIN d) \cup {k} |-> IF x = k THEN v ELSE d[x]]

\* d.get(k)
Get(d, k) == IF k \in DOMAIN d THEN d[k] ELSE None

\* bool(v)
Truthy(v) ==
  CASE v.t = "none" -> FALSE
    [] v.t = "int" -> v.i # 0
    [] v.t = "str" -> v.s # ""
    [] v.t = "bool" -> v.b
    [] v.t = "dict" -> DOMAIN v.kv # {}
    [] v.t = "list" -> Len(v.l) > 0
    [] OTHER -> TRUE

HexDigits == <<"0", "1", "2", "3", "4", "5", "6", "7", "8", "9", "a", "b", "c", "d", "e", "f">>

\* the identifiers of the model are the ordinals 0..MaxObjectId
MaxObjectId == LimitCeiling + MaxId + 1

\* str(ObjectId): 24 hexadecimal characters
ObjectIdStr(n) ==
  "000000000000000000000" \o HexDigits[(n \div 256) + 1]
    \o HexDigits[((n \div 16) % 16) + 1] \o HexDigits[(n % 16) + 1]

DatetimeStr(n) == "2024-01-0" \o ToString(n) \o " 00:00:00"

\* str(v)
Str(v) ==
  CASE v.t = "none" -> "None"
    [] v.t = "int" -> ToString(v.i)
    [] v.t = "str" -> v.s
    [] v.t = "bool" -> IF v.b THEN "True" ELSE "False"
    [] v.t = "oid" -> ObjectIdStr(v.o)
    [] v.t = "date" -> DatetimeStr(v.d)

\* ObjectId(arg): None makes a new identifier, a 24-hex string is parsed,
\* any other string raises InvalidId, any other type raises TypeError
ObjectIdOf(arg, fresh) ==
  CASE arg.t = "none" -> [raised |-> "none", oid |-> ObjectId(fresh)]
    [] arg.t = "oid" -> [raised |-> "none", oid |-> arg]
    [] arg.t = "str" ->
         LET parsed == {n \in 0..MaxObjectId : ObjectIdStr(n) = arg.s}
         IN IF parsed # {}
            THEN [raised |-> "none", oid |-> ObjectId(CHOOSE n \in parsed : TRUE)]
            ELSE [raised |-> "InvalidId", oid |-> None]
    [] OTHER -> [raised |-> "TypeError", oid |-> None]

\* ------------------------------------------------------------------- JSON
JsonScalars == {"int", "str", "bool", "none"}

\* json.dumps succeeds on v
JsonSerializable(v) == v.t \in JsonScalars

\* json.dumps of a scalar
JsonDumpsScalar(v) ==
  CASE v.t = "none" -> [j |-> "null"]
    [] v.t = "int" -> [j |-> "number", n |-> v.i]
    [] v.t = "str" -> [j |-> "string", s |-> v.s]
    [] v.t = "bool" -> [j |-> IF v.b THEN "true" ELSE "false"]

\* json.dumps of a flat dict
JsonDumps(d) == [j |-> "object", members |-> [k \in DOMAIN d |-> JsonDumpsScalar(d[k])]]

JsonLoadsScalar(x) ==
  CASE x.j = "null" -> None
    [] x.j = "number" -> PyInt(x.n)
    [] x.j = "string" -> PyStr(x.s)
    [] x.j = "true" -> PyBool(TRUE)
    [] x.j = "false" -> PyBool(FALSE)

\* json.loads
JsonLoads(x) ==
  CASE x.j = "object" -> PyDict([k \in DOMAIN x.members |-> JsonLoadsScalar(x.members[k])])
    [] x.j = "array" -> PyList([i \in DOMAIN x.items |-> JsonLoadsScalar(x.items[i])])
    [] OTHER -> JsonLoadsScalar(x)

\* base64.urlsafe_b64encode(text.encode()).decode()
B64Encode(text) == [kind |-> "b64", text |-> text]

\* cursor strings: a base64 text whose payload is JSON, a base64 text whose
\* payload is not JSON, a string that is not base64, the empty string
CursorNotBase64 == [kind |-> "notb64"]
CursorNotJson == [kind |-> "b64", text |-> [j |-> "invalid"]]
CursorEmpty == [kind |-> "empty"]

\* ----------------------------------------------------- the document store
\* BSON comparison order of the types, then the order within the type
TypeRank(v) ==
  CASE v.t = "none" -> 1
    [] v.t = "int" -> 2
    [] v.t = "str" -> 3
    [] v.t = "oid" -> 7
    [] v.t = "bool" -> 8
    [] v.t = "date" -> 9

\* strings compare byte-wise: identifier strings ("0...") before datetime
\* strings ("2024-...") before letters
StrRank(s) ==
  IF \E n \in 0..MaxObjectId : s = ObjectIdStr(n)
  THEN CHOOSE n \in 0..MaxObjectId : s = ObjectIdStr(n)
  ELSE IF \E n \in 0..9 : s = DatetimeStr(n)
  THEN MaxObjectId + 1 + (CHOOSE n \in 0..9 : s = DatetimeStr(n))
  ELSE MaxObjectId + 11

Within(v) ==
  CASE v.t = "int" -> v.i
    [] v.t = "str" -> StrRank(v.s)
    [] v.t = "oid" -> v.o
    [] v.t = "date" -> v.d
    [] v.t = "bool" -> IF v.b THEN 1 ELSE 0
    [] OTHER -> 0

ValLess(a, b) ==
  \/ TypeRank(a) < TypeRank(b)
  \/ TypeRank(a) = TypeRank(b) /\ Within(a) < Within(b)

Lower(c) ==
  CASE c = "A" -> "a" [] c = "B" -> "b" [] c = "C" -> "c"
    [] c = "D" -> "d" [] c = "E" -> "e" [] c = "F" -> "f" [] OTHER -> c

\* {field: {"$regex": pattern, "$options": "i"}}
RegexCond(pattern) == [t |-> "regex", pattern |-> pattern, options |-> "i"]

\* a pattern of plain characters is found somewhere in the text, letters
\* compared without case
RegexSearch(pattern, text) ==
  \E i \in 0..(Len(text) - Len(pattern)) :
    \A j \in 1..Len(pattern) : Lower(text[i + j]) = Lower(pattern[j])

\* {field: {"$gt": arg}} / {field: {"$lt": arg}}: comparison operators match
\* only values of the argument's own type
OpCond(op, arg) == [t |-> "ops", op |-> op, arg |-> arg]

OrCond(alts) == [t |-> "or", alts |-> alts]

CondHolds(v, c) ==
  CASE c.t = "ops" ->
         /\ TypeRank(v) = TypeRank(c.arg)
         /\ c.arg.t # "none"
         /\ IF c.op = "$gt" THEN ValLess(c.arg, v) ELSE ValLess(v, c.arg)
    [] c.t = "regex" -> v.t = "str" /\ RegexSearch(c.pattern, v.s)
    [] OTHER -> v = c

RECURSIVE Matches(_, _)
Matches(doc, q) ==
  \A k \in DOMAIN q :
    IF k = "$or"
    THEN \E i \in DOMAIN q[k].alts : Matches(doc, q[k].alts[i])
    ELSE CondHolds(Get(doc, k), q[k])

\* collection.find(q): the matching documents in the store's natural order
Find(collection, q) == SelectSeq(collection, LAMBDA d : Matches(d, q))

Before(a, b, direction) == IF direction = 1 THEN ValLess(a, b) ELSE ValLess(b, a)

\* the place document i of s takes once s is ordered by the one sort key:
\* after every document whose key comes before its own, and after the
\* documents of equal key that the store held before it
SortRank(s, field, direction) ==
  LET key == [i \in DOMAIN s |-> Get(s[i], field)] \o <<>>
  IN [i \in DOMAIN s |->
        1 + Cardinality({j \in DOMAIN s :
              \/ Before(key[j], key[i], direction)
              \/ /\ ~Before(key[i], key[j], direction)
                 /\ j < i})] \o <<>>

\* .sort([(field, direction)]): ordered by the one sort key only; documents
\* with equal keys stay in the order the store held them
Sort(s, field, direction) ==
  LET rank == SortRank(s, field, direction)
  IN [p \in DOMAIN s |-> s[CHOOSE i \in DOMAIN s : rank[i] = p]] \o <<>>

\* .limit(n) and the bounded async-for loop
Take(s, n) == SubSeq(s, 1, IF Len(s) < n THEN Len(s) ELSE n)

\* ------------------------------------------------ get_documents_cursor
\* lines 36-44: decode the cursor, an undecodable one is ignored
DecodeCursor(cursor) ==
  IF cursor = None \/ cursor = CursorEmpty THEN None
  ELSE IF cursor.kind # "b64" THEN None
  ELSE IF cursor.text.j = "invalid" THEN None
  ELSE JsonLoads(cursor.text)

Raised(e, query) == [raised |-> e, q |-> query]

\* lines 47-70: the query with the cursor position
BuildCursorQuery(query, last_doc, sort_field, sort_direction, fresh) ==
  IF ~Truthy(last_doc) THEN Raised("none", query)
  ELSE IF last_doc.t # "dict" THEN Raised("AttributeError", query)
  ELSE
    LET made == ObjectIdOf(Get(last_doc.kv, "_id"), fresh)
        op == IF sort_direction = 1 THEN "$gt" ELSE "$lt"
        sort_value == Get(last_doc.kv, sort_field)
    IN IF made.raised # "none" THEN Raised(made.raised, query)
       ELSE IF sort_field = "_id"
       THEN Raised("none", Put(query, "_id", OpCond(op, made.oid)))
       ELSE Raised("none",
              Put(query, "$or",
                  OrCond(<<(sort_field :> OpCond(op, sort_value)),
                           (sort_field :> sort_value @@ "_id" :> OpCond(op, made.oid))>>)))

\* lines 73-79
Fetch(collection, mongo_query, sort_field, sort_direction, limit) ==
  Take(Sort(Find(collection, mongo_query), sort_field, sort_direction), limit + 1)

\* mutant: the page counts as having more as soon as it is full
HasMore_full(fetched, limit) == Len(fetched) >= limit

\* line 82
HasMore(fetched, limit) == Len(fetched) > limit

\* mutant: the extra row is not dropped
Trim_keep(fetched, limit) == fetched

\* lines 83-84
Trim(fetched, limit) ==
  IF HasMore(fetched, limit) THEN SubSeq(fetched, 1, Len(fetched) - 1) ELSE fetched

\* mutant: a value json cannot carry is dropped instead of stringified
CursorSortValue_drop(sort_value) ==
  IF JsonSerializable(sort_value) THEN sort_value ELSE None

\* lines 90-99
CursorSortValue(sort_value) ==
  IF sort_value.t = "oid" THEN PyStr(Str(sort_value))
  ELSE IF sort_value # None
       THEN IF JsonSerializable(sort_value) THEN sort_value ELSE PyStr(Str(sort_value))
       ELSE sort_value

\* lines 101-103
EncodeCursor(last_doc, sort_field) ==
  LET last_doc_data == Put(("_id" :> PyStr(Str(last_doc["_id"]))), sort_field,
                           CursorSortValue(Get(last_doc, sort_field)))
  IN B64Encode(JsonDumps(last_doc_data))

\* mutant: the cursor is built from the extra row, before trimming
NextCursor_extra(fetched, documents, limit, sort_field) ==
  IF Len(fetched) > limit
  THEN EncodeCursor(fetched[Len(fetched)], sort_field)
  ELSE None

\* lines 87-103
NextCursor(fetched, documents, limit, sort_field) ==
  IF HasMore(fetched, limit) /\ documents # <<>>
  THEN EncodeCursor(documents[Len(documents)], sort_field)
  ELSE None

get_documents_cursor(collection, query, cursor, limit, sort_field, sort_direction, fresh) ==
  LET built == BuildCursorQuery(query, DecodeCursor(cursor), sort_field, sort_direction, fresh)
      fetched == Fetch(collection, built.q, sort_field, sort_direction, limit)
      documents == Trim(fetched, limit)
  IN IF built.raised # "none"
     THEN [raised |-> built.raised, mongo_query |-> built.q, documents |-> <<>>,
           next_cursor |-> None, has_more |-> FALSE, limit |-> limit]
     ELSE [raised |-> "none", mongo_query |-> built.q, documents |-> documents,
           next_cursor |-> NextCursor(fetched, documents, limit, sort_field),
           has_more |-> HasMore(fetched, limit), limit |-> limit]

\* --------------------------------------- utils.convert_object_ids_in_query
\* Filters live on a heap of dict and list objects, so that the identity of
\* an object is distinct from its value. A value is a scalar or a reference.
\* Strings of filters are sequences of characters; an ObjectId made from one
\* is its twelve bytes, written as lower-case hex.
Ref(a) == [t |-> "ref", a |-> a]
DictObject(kv) == [t |-> "dict", kv |-> kv]
ListObject(l) == [t |-> "list", l |-> l]

ObjectIdHex(chars) == [t |-> "oid", hex |-> chars]

IsStr(v) == v.t = "str"
IsDict(h, v) == v.t = "ref" /\ h[v.a].t = "dict"
IsList(h, v) == v.t = "ref" /\ h[v.a].t = "list"

HexChars == {HexDigits[i] : i \in DOMAIN HexDigits} \cup {"A", "B", "C", "D", "E", "F"}

\* lines 422-424 and 444-446: a string of 24 hexadecimal characters
IsCandidate(v) ==
  /\ IsStr(v)
  /\ Len(v.s) = ObjectIdHexLen
  /\ \A i \in DOMAIN v.s : v.s[i] \in HexChars

\* mutant: the constructor takes any string of 24 characters
ObjectIdRaises_len(v) ==
  IF ~IsStr(v) THEN "TypeError"
  ELSE IF Len(v.s) = 24 THEN "none" ELSE "InvalidId"

\* what the constructor ObjectId(v) raises: it accepts exactly the strings of
\* 24 hexadecimal characters
ObjectIdRaises(v) ==
  IF ~IsStr(v) THEN "TypeError"
  ELSE IF Len(v.s) = 24 /\ \A i \in DOMAIN v.s : v.s[i] \in HexChars
       THEN "none" ELSE "InvalidId"

\* mutant: only TypeError is caught
Caught_narrow == {"TypeError"}

\* except (ValueError, TypeError, InvalidId)
Caught == {"ValueError", "TypeError", "InvalidId"}

\* an exception that leaves the function, in the place of the value that was
\* being computed
Raise(e) == [t |-> "raise", e |-> e]

\* try: ObjectId(v)  except (ValueError, TypeError, InvalidId): v
TryObjectId(v) ==
  IF ObjectIdRaises(v) = "none"
  THEN ObjectIdHex([i \in DOMAIN v.s |-> Lower(v.s[i])])
  ELSE IF ObjectIdRaises(v) \in Caught THEN v ELSE Raise(ObjectIdRaises(v))

\* converted = {}  /  converted[key] = {}
NewDict(h) == [h |-> Append(h, DictObject(EmptyDict)), a |-> Len(h) + 1]

\* converted_list = []
NewList(h) == [h |-> Append(h, ListObject(<<>>)), a |-> Len(h) + 1]

\* d[key] = value, on the object at address a
SetItem(h, a, key, value) == [h EXCEPT ![a] = DictObject(Put(h[a].kv, key, value))]

\* mutant: extend in place of append, a list element is spliced in
ListAppend_extend(h, a, value) ==
  IF IsList(h, value)
  THEN [h EXCEPT ![a] = ListObject(h[a].l \o h[value.a].l)]
  ELSE [h EXCEPT ![a] = ListObject(Append(h[a].l, value))]

\* converted_list.append(value), on the object at address a
ListAppend(h, a, value) == [h EXCEPT ![a] = ListObject(Append(h[a].l, value))]

\* the keys of a dict in iteration order
RECURSIVE KeySeq(_)
KeySeq(S) ==
  IF S = {} THEN <<>>
  ELSE LET k == CHOOSE x \in S : TRUE IN <<k>> \o KeySeq(S \ {k})

\* mutant: the identifier is also written back into the caller's dict
ConvertIdField_inplace(h, src, dst, key, value) ==
  SetItem(SetItem(h, src, key, TryObjectId(value)), dst, key, TryObjectId(value))

\* lines 408-413
ConvertIdField(h, src, dst, key, value) == SetItem(h, dst, key, TryObjectId(value))

\* lines 419-432: the elements of a $in / $nin list, appended to the list at a
RECURSIVE ConvertInList(_, _, _)
ConvertInList(h, a, elems) ==
  IF elems = <<>> THEN h
  ELSE ConvertInList(
         ListAppend(h, a, IF IsCandidate(Head(elems)) THEN TryObjectId(Head(elems))
                          ELSE Head(elems)),
         a, Tail(elems))

\* lines 417-439: the operators of a dict value, written to the dict at dst
RECURSIVE ConvertOps(_, _, _, _)
ConvertOps(h, src, dst, ops) ==
  IF ops = <<>> THEN h
  ELSE
    LET op == Head(ops)
        op_value == h[src].kv[op]
        made == NewList(h)
        after == IF op \in {"$in", "$nin"} /\ IsList(h, op_value)
                 THEN SetItem(ConvertInList(made.h, made.a, h[op_value.a].l),
                              dst, op, Ref(made.a))
                 ELSE IF op = "$eq" /\ IsStr(op_value) /\ Len(op_value.s) = ObjectIdHexLen
                 THEN SetItem(h, dst, op, TryObjectId(op_value))
                 ELSE SetItem(h, dst, op, op_value)
    IN ConvertOps(after, src, dst, Tail(ops))

RECURSIVE convert_object_ids_in_query(_, _)
RECURSIVE ConvertList(_, _, _)
RECURSIVE ConvertItems(_, _, _, _)

\* lines 441-457: the elements of a list value, appended to the list at a
ConvertList(h, a, elems) ==
  IF elems = <<>> THEN h
  ELSE
    LET v == Head(elems)
        sub == convert_object_ids_in_query(h, v)
        after == IF IsCandidate(v) THEN ListAppend(h, a, TryObjectId(v))
                 ELSE IF IsDict(h, v) THEN ListAppend(sub.h, a, sub.v)
                 ELSE ListAppend(h, a, v)
    IN ConvertList(after, a, Tail(elems))

\* lines 407-460: the loop over query.items(), written to the dict at dst
ConvertItems(h, src, dst, keys) ==
  IF keys = <<>> THEN h
  ELSE
    LET key == Head(keys)
        value == h[src].kv[key]
        inner == NewDict(h)
        list == NewList(h)
        after ==
          IF key = "_id" /\ IsStr(value) THEN ConvertIdField(h, src, dst, key, value)
          ELSE IF IsDict(h, value)
          THEN ConvertOps(SetItem(inner.h, dst, key, Ref(inner.a)), value.a, inner.a,
                          KeySeq(DOMAIN h[value.a].kv))
          ELSE IF IsList(h, value)
          THEN SetItem(ConvertList(list.h, list.a, h[value.a].l), dst, key, Ref(list.a))
          ELSE SetItem(h, dst, key, value)
    IN ConvertItems(after, src, dst, Tail(keys))

\* lines 394-462; returns the heap after the call and the value returned
convert_object_ids_in_query(h, query) ==
  IF ~IsDict(h, query) THEN [h |-> h, v |-> query]
  ELSE LET converted == NewDict(h)
       IN [h |-> ConvertItems(converted.h, query.a, converted.a,
                              KeySeq(DOMAIN h[query.a].kv)),
           v |-> Ref(converted.a)]

\* the value of v, with every reference replaced by the object it names
RECURSIVE Deref(_, _)
Deref(h, v) ==
  IF v.t # "ref" THEN v
  ELSE IF h[v.a].t = "dict"
       THEN PyDict([k \in DOMAIN h[v.a].kv |-> Deref(h, h[v.a].kv[k])])
       ELSE PyList([i \in DOMAIN h[v.a].l |-> Deref(h, h[v.a].l[i])])

\* the addresses of the objects v is made of
RECURSIVE Reach(_, _)
Reach(h, v) ==
  IF v.t # "ref" THEN {}
  ELSE {v.a} \cup
       (IF h[v.a].t = "dict"
        THEN UNION {Reach(h, h[v.a].kv[k]) : k \in DOMAIN h[v.a].kv}
        ELSE UNION {Reach(h, h[v.a].l[i]) : i \in DOMAIN h[v.a].l})

\* the caller builds a filter: children first, then the object holding them
RECURSIVE Build(_, _)
RECURSIVE BuildAll(_, _)
BuildAll(h, trees) ==
  IF trees = <<>> THEN [h |-> h, vs |-> <<>>]
  ELSE LET first == Build(h, Head(trees))
           rest == BuildAll(first.h, Tail(trees))
       IN [h |-> rest.h, vs |-> <<first.v>> \o rest.vs]

Build(h, tree) ==
  IF tree.t = "dict"
  THEN LET keys == KeySeq(DOMAIN tree.kv)
           built == BuildAll(h, [i \in DOMAIN keys |-> tree.kv[keys[i]]])
       IN [h |-> Append(built.h,
                        DictObject([k \in DOMAIN tree.kv |->
                          built.vs[CHOOSE i \in DOMAIN keys : keys[i] = k]])),
           v |-> Ref(Len(built.h) + 1)]
  ELSE IF tree.t = "list"
  THEN LET built == BuildAll(h, tree.l)
       IN [h |-> Append(built.h, ListObject(built.vs)), v |-> Ref(Len(built.h) + 1)]
  ELSE [h |-> h, v |-> tree]

\* ------------------------------------------------------ services.py
\* schema.py serialize_object_id on one document
serialize_object_id(doc) ==
  [k \in DOMAIN doc |-> IF doc[k].t = "oid" THEN PyStr(Str(doc[k])) ELSE doc[k]]

SerializeAll(docs) == [i \in DOMAIN docs |-> serialize_object_id(docs[i])]

\* mutant: the limit is used as requested
ClampLimit_none(limit) == limit

\* lines 62-64 and 211-213
ClampLimit(limit) == IF limit > LimitCeiling THEN LimitCeiling ELSE limit

\* sort_field: str | None; None and "" are both falsy in `if sort_field` and
\* `sort_field or "_id"`
NoSortField == ""

\* mutant: $count placed after $skip, it counts the rows from skip on
Aggregate_after_skip(collection, mongo_query, sort_field, sort_direction, skip, limit) ==
  LET matched == Find(collection, mongo_query)
      rest == SubSeq(matched, skip + 1, Len(matched))
  IN [data |-> Take(rest, limit),
      total |-> IF rest = <<>> THEN <<>> ELSE <<[count |-> Len(rest)]>>]

\* lines 135-156: $match, optional $sort, then $facet {data: $skip/$limit,
\* total: $count}, all in the one aggregate
Aggregate(collection, mongo_query, sort_field, sort_direction, skip, limit) ==
  LET matched == Find(collection, mongo_query)
      ordered == IF sort_field # NoSortField
                 THEN Sort(matched, sort_field, sort_direction) ELSE matched
      rest == SubSeq(ordered, skip + 1, Len(ordered))
  IN [data |-> Take(rest, limit),
      total |-> IF matched = <<>> THEN <<>> ELSE <<[count |-> Len(matched)]>>]

\* lines 169-185: the result built from the facet document
OffsetResponse(facet_result, skip, lim) ==
  [pagination_type |-> "offset", raised |-> "none",
   documents |-> SerializeAll(facet_result.data),
   next_cursor |-> None, has_more |-> FALSE, limit |-> lim,
   total |-> IF facet_result.total # <<>> THEN facet_result.total[1].count ELSE 0,
   skip |-> skip]

\* lines 62-185, from the built mongo_query on
list_documents_optimized(collection, mongo_query, skip, limit, sort_field, sort_direction, cursor, use_cursor, fresh) ==
  LET lim == ClampLimit(limit)
      cursor_result == get_documents_cursor(collection, mongo_query, cursor, lim,
                         IF sort_field # NoSortField THEN sort_field ELSE "_id",
                         sort_direction, fresh)
      facet_result == Aggregate(collection, mongo_query, sort_field, sort_direction, skip, lim)
  IN IF use_cursor
     THEN [pagination_type |-> "cursor", raised |-> cursor_result.raised,
           documents |-> SerializeAll(cursor_result.documents),
           next_cursor |-> cursor_result.next_cursor,
           has_more |-> cursor_result.has_more, limit |-> lim,
           total |-> 0, skip |-> 0]
     ELSE OffsetResponse(facet_result, skip, lim)

\* utils.py line 489: date_pattern.match(value), ^\d{4}-\d{2}-\d{2}
IsDateLike(chars) ==
  /\ Len(chars) >= 10
  /\ \A i \in 1..10 :
       IF i \in {5, 8} THEN chars[i] = "-"
       ELSE chars[i] \in {"0", "1", "2", "3", "4", "5", "6", "7", "8", "9"}

\* utils.py lines 465-507: the string fields of the first five documents
\* that never hold a date-like value; _id alone when there is none
get_searchable_fields(collection) ==
  LET sample == Take(collection, 5)
      Strings(dated) ==
        {k \in UNION {DOMAIN sample[i] : i \in DOMAIN sample} \ {"_id"} :
           \E i \in DOMAIN sample :
             /\ k \in DOMAIN sample[i]
             /\ sample[i][k].t = "str"
             /\ IsDateLike(sample[i][k].s) = dated}
      string_fields == Strings(FALSE) \ Strings(TRUE)
  IN IF sample = <<>> \/ string_fields = {} THEN <<"_id">> ELSE KeySeq(string_fields)

\* a query string: its characters and what json.loads makes of them, a JSON
\* value or a JSONDecodeError ("invalid"); the empty string is falsy
QueryString(chars, text) == [chars |-> chars, text |-> text]

\* services.py lines 80-88
TextSearch(query, searchable_fields) ==
  LET limited_fields == IF Len(searchable_fields) > 10
                        THEN SubSeq(searchable_fields, 1, 10) ELSE searchable_fields
  IN IF limited_fields # <<>>
     THEN ("$or" :> OrCond([i \in DOMAIN limited_fields |->
                              (limited_fields[i] :> RegexCond(query))]))
     ELSE EmptyDict

\* convert_object_ids_in_query on a parsed filter
Normalized(parsed_query) ==
  LET built == Build(<<>>, parsed_query)
      converted == convert_object_ids_in_query(built.h, built.v)
  IN Deref(converted.h, converted.v)

\* services.py lines 68-91
BuildMongoQuery(collection, query) ==
  IF query.chars = <<>> THEN EmptyDict
  ELSE IF query.text.j = "invalid"
  THEN TextSearch(query.chars, get_searchable_fields(collection))
  ELSE LET parsed_query == JsonLoads(query.text)
       IN IF parsed_query.t = "dict" THEN Normalized(parsed_query).kv ELSE EmptyDict

\* lines 112-118 and 139-142: the keys of a document that the projection
\* keeps, _id always among them
Project(doc, fields) ==
  [k \in (DOMAIN doc) \cap ({fields[i] : i \in DOMAIN fields} \cup {"_id"}) |-> doc[k]]

ProjectAll(docs, fields) == [i \in DOMAIN docs |-> Project(docs[i], fields)]

\* lines 135-156 with `fields`: $match, $project when fields are given, the
\* optional $sort after it, then the $facet
AggregateFields(collection, mongo_query, fields, sort_field, sort_direction, skip, limit) ==
  LET matched == Find(collection, mongo_query)
      projected == IF fields # <<>> THEN ProjectAll(matched, fields) ELSE matched
      ordered == IF sort_field # NoSortField
                 THEN Sort(projected, sort_field, sort_direction) ELSE projected
      rest == SubSeq(ordered, skip + 1, Len(ordered))
  IN [data |-> Take(rest, limit),
      total |-> IF matched = <<>> THEN <<>> ELSE <<[count |-> Len(matched)]>>]

\* lines 62-185 with `fields`, from the built mongo_query on: in cursor mode
\* the page comes from get_documents_cursor and is projected afterwards
list_documents_optimized_fields(collection, mongo_query, skip, limit, sort_field, sort_direction, cursor, use_cursor, fields, fresh) ==
  LET lim == ClampLimit(limit)
      cursor_result == get_documents_cursor(collection, mongo_query, cursor, lim,
                         IF sort_field # NoSortField THEN sort_field ELSE "_id",
                         sort_direction, fresh)
      documents == IF fields # <<>> THEN ProjectAll(cursor_result.documents, fields)
                   ELSE cursor_result.documents
      facet_result == AggregateFields(collection, mongo_query, fields, sort_field,
                        sort_direction, skip, lim)
  IN IF use_cursor
     THEN [pagination_type |-> "cursor", raised |-> cursor_result.raised,
           documents |-> SerializeAll(documents),
           next_cursor |-> cursor_result.next_cursor,
           has_more |-> cursor_result.has_more, limit |-> lim,
           total |-> 0, skip |-> 0]
     ELSE OffsetResponse(facet_result, skip, lim)

\* lines 211-272, from the converted mongo_query on
search_documents_optimized(collection, mongo_query, skip, limit, sort_field, sort_direction) ==
  LET lim == ClampLimit(limit)
      facet_result == Aggregate(collection, mongo_query, sort_field, sort_direction, skip, lim)
  IN [raised |-> "none",
      documents |-> SerializeAll(facet_result.data),
      total |-> IF facet_result.total # <<>> THEN facet_result.total[1].count ELSE 0,
      skip |-> skip, limit |-> lim]

\* mutant: the delete is sent also when no id is valid
NoValidIds_never(object_ids) == FALSE

\* line 390: if not object_ids
NoValidIds(object_ids) == object_ids = <<>>

\* collection.delete_many({"_id": {"$in": object_ids}})
DeleteMany(collection, object_ids) ==
  SelectSeq(collection, LAMBDA d : \A i \in DOMAIN object_ids : d["_id"] # object_ids[i])

\* lines 366-396; deletes: the filters sent to the store
bulk_delete_documents(collection, document_ids) ==
  LET tried == [i \in DOMAIN document_ids |-> ObjectIdOf(document_ids[i], 0)] \o <<>>
      uncaught == {i \in DOMAIN tried : tried[i].raised \notin Caught \cup {"none"}}
      converted == SelectSeq(tried, LAMBDA r : r.raised = "none")
      object_ids == [i \in DOMAIN converted |-> converted[i].oid] \o <<>>
      kept == DeleteMany(collection, object_ids)
  IN IF uncaught # {}
     THEN [raised |-> tried[CHOOSE i \in uncaught : \A j \in uncaught : i <= j].raised,
           deletes |-> <<>>, collection |-> collection]
     ELSE IF NoValidIds(object_ids)
     THEN [raised |-> "none", deleted_count |-> 0, total |-> Len(document_ids),
           deletes |-> <<>>, collection |-> collection]
     ELSE [raised |-> "none", deleted_count |-> Len(collection) - Len(kept),
           total |-> Len(document_ids), deletes |-> <<object_ids>>, collection |-> kept]

\* ------------------------------------------- schema.py, get_collection_schema
\* A contract (Pydantic) model is its declared fields, name -> annotation, or
\* an object whose inference raises. An app is what app.openapi() does: it
\* raises, or it gives the schema definition that name resolution settles on
\* (None when there is none), as its properties, name -> OpenAPI type. Of a
\* field's entry the report keeps the type.
NoModel == [kind |-> "none"]
NoApp == [kind |-> "none"]

\* schema.py lines 299-306
PydanticFieldType(annotation) ==
  CASE annotation = "str" -> "str"
    [] annotation = "int" -> "int"
    [] OTHER -> "str"

\* schema.py lines 712-730
OpenApiFieldType(field_type) ==
  CASE field_type = "string" -> "str"
    [] field_type = "integer" -> "int"
    [] OTHER -> "str"

\* schema.py lines 155-161, 164-265
infer_schema_from_pydantic(model) ==
  IF model.kind = "broken" THEN [raised |-> model.raises, schema |-> None]
  ELSE [raised |-> "none",
        schema |-> [fields |-> [n \in DOMAIN model.fields |->
                                  [type |-> PydanticFieldType(model.fields[n])]],
                    sample_count |-> 0, source |-> "pydantic_model"]]

\* schema.py line 588: except (AttributeError, KeyError, TypeError, ValueError)
OpenApiCaught == {"AttributeError", "KeyError", "TypeError", "ValueError"}

\* schema.py lines 484-594, 597-656
infer_schema_from_openapi(app) ==
  IF app.openapi.kind = "raises"
  THEN [raised |-> IF app.openapi.e \in OpenApiCaught THEN "none" ELSE app.openapi.e,
        schema |-> None]
  ELSE IF app.openapi.schema_def = None THEN [raised |-> "none", schema |-> None]
  ELSE [raised |-> "none",
        schema |-> [fields |-> [n \in DOMAIN app.openapi.schema_def |->
                                  [type |-> OpenApiFieldType(app.openapi.schema_def[n])]],
                    sample_count |-> 0, source |-> "openapi_schema"]]

\* mutant: the except clauses of the router catch nothing
RouterCaught_none(e) == FALSE

\* router.py lines 305 and 362: except Exception
RouterCaught(e) == e \in OpenApiCaught \cup {"RuntimeError"}

\* mutant: the registry is read whatever the contract model gave
NeedsRegistry_always(schema) == TRUE

\* router.py line 321: if not schema.get("fields")
NeedsRegistry(schema) == DOMAIN schema.fields = {}

EmptySchema == [fields |-> <<>>, sample_count |-> 0]

\* router.py lines 295-410, from the contract model found for the collection
\* on; consulted lists the sources read, in order
get_collection_schema(pydantic_model, app) ==
  LET contract == IF pydantic_model = NoModel
                  THEN [raised |-> "none", schema |-> EmptySchema]
                  ELSE infer_schema_from_pydantic(pydantic_model)
      first == IF contract.raised # "none" /\ RouterCaught(contract.raised)
               THEN [raised |-> "none", schema |-> EmptySchema]
               ELSE contract
      read == first.raised = "none" /\ NeedsRegistry(first.schema) /\ app # NoApp
      openapi_schema == infer_schema_from_openapi(app)
      second == IF ~read THEN first
                ELSE IF openapi_schema.raised # "none"
                THEN IF RouterCaught(openapi_schema.raised) THEN first ELSE openapi_schema
                ELSE IF openapi_schema.schema # None
                        /\ DOMAIN openapi_schema.schema.fields # {}
                THEN openapi_schema
                ELSE first
      consulted == (IF pydantic_model # NoModel THEN <<"pydantic_model">> ELSE <<>>)
                   \o (IF read THEN <<"openapi_schema">> ELSE <<>>)
  IN IF second.raised # "none"
     THEN [raised |-> "HTTPException", schema |-> None, consulted |-> consulted]
     ELSE [raised |-> "none",
           schema |-> IF DOMAIN second.schema.fields = {}
                      THEN Put(second.schema, "_diagnostic",
                               [has_app |-> app # NoApp,
                                pydantic_model_found |-> pydantic_model # NoModel])
                      ELSE second.schema,
           consulted |-> consulted]

\* ------------------------------------------------------------- cache.py
\* Cache keys are strings of characters, written as sequences. A wrapped
\* function is called with one positional argument.
\* the ttl given to cache_result, in ticks of the clock
Ttl == 2

\* json.dumps(key_data, sort_keys=True, default=str): a value json cannot
\* carry is written as the string str() gives for it
KeyStr(a) == JsonDumpsScalar(IF JsonSerializable(a) THEN a ELSE PyStr(Str(a)))

\* hashlib.md5(key_str).hexdigest(): one digest for each text, here cut to
\* two characters; the texts of CacheArgs are one number and one string, so
\* distinct texts keep distinct digests
Md5Hex(key_str) ==
  CASE key_str.j = "number" -> <<"0", "a">>
    [] key_str.j = "string" -> <<"1", "c">>
    [] OTHER -> <<"2", "e">>

\* lines 19-31
get_cache_key(a) == Md5Hex(KeyStr(a))

\* line 47: f"{func.__name__}:{get_cache_key(*args, **kwargs)}"
CacheKey(name, a) == name \o <<":">> \o get_cache_key(a)

\* pattern in key
Contains(key, pattern) ==
  \E i \in 0..(Len(key) - Len(pattern)) : SubSeq(key, i + 1, i + Len(pattern)) = pattern

\* mutant: clear_cache leaves _cache_ttl as it is
TtlWithout_kept(d, K) == d

\* lines 80 and 87: _cache_ttl.clear() / _cache_ttl.pop(key, None)
TtlWithout(d, K) == [k \in (DOMAIN d) \ K |-> d[k]]

\* mutant: the pattern has to be the start of the key
KeysToRemove_prefix(c, pattern) ==
  {key \in DOMAIN c : Len(pattern) <= Len(key) /\ SubSeq(key, 1, Len(pattern)) = pattern}

\* line 84
KeysToRemove(c, pattern) == {key \in DOMAIN c : Contains(key, pattern)}

\* the mapping d without the keys K
Without(d, K) == [k \in (DOMAIN d) \ K |-> d[k]]

\* what the wrapped function gives at its run-th execution
Func(name, a, run) == [name |-> name, args |-> a, run |-> run]

\* ---------------------------------------- middleware.py, RateLimitMiddleware
\* the arguments the middleware is built with (lines 21-23)
Calls == 2

Period == 2

ExemptPaths == << <<"/", "d">> >>

\* str.startswith
StartsWith(text, prefix) ==
  Len(prefix) <= Len(text) /\ SubSeq(text, 1, Len(prefix)) = prefix

\* line 63
IsExempt(path) == \E i \in DOMAIN ExemptPaths : StartsWith(path, ExemptPaths[i])

\* request.client: None when the server gave no peer address
Address(host) == [t |-> "addr", host |-> host]

\* lines 39-50
get_client_ip(client) == IF client # None THEN client.host ELSE "unknown"

\* mutant: a timestamp exactly one period old is kept
Prune_keep_edge(timestamps, t) == SelectSeq(timestamps, LAMBDA timestamp : t - timestamp <= Period)

\* mutant: a timestamp is dropped one second early
Prune_early(timestamps, t) == SelectSeq(timestamps, LAMBDA timestamp : t - timestamp < Period - 1)

\* lines 70-72
Prune(timestamps, t) == SelectSeq(timestamps, LAMBDA timestamp : t - timestamp < Period)

\* mutant: one request more than calls is let through
LimitReached_off_by_one(timestamps) == Len(timestamps) > Calls

\* line 75
LimitReached(timestamps) == Len(timestamps) >= Calls

\* lines 76-94
RateLimitResponse ==
  [status_code |-> 429, retry_after |-> Period, limit |-> Calls, remaining |-> 0]

\* ------------------------------------------------------------------ state
VARIABLES collection, query, sort_field, sort_direction, limit, use_cursor,
          cursor, pages, response, done, initial

\* the heap of filter objects, the heap as the caller built it, the caller's
\* filter, the values returned by a first and a second call of
\* convert_object_ids_in_query, and the number of calls made
VARIABLES heap, heap0, input, out1, out2, calls

pvars == <<collection, query, sort_field, sort_direction, limit, use_cursor,
           cursor, pages, response, done, initial>>

cvars == <<heap, heap0, input, out1, out2, calls>>

\* an offset request in flight: the facet document its aggregate returned and
\* the skip it asked for; the collection as that aggregate saw it; the number
\* of store operations the request has issued; the number of writes other
\* clients have made since
VARIABLES pending, snapshot, store_calls, writes

ovars == <<pending, snapshot, store_calls, writes>>

\* schema inference: the contract model registered for the collection, the
\* application whose OpenAPI registry is read, and the report of the request
VARIABLES pydantic_model, app, report

svars == <<pydantic_model, app, report>>

\* cache.py: the maps _cache and _cache_ttl; the clock time.time() reads; the
\* calls of wrapped functions that are awaiting the function; the number of
\* executions of wrapped functions so far. History: when each entry was
\* written, and of the last step its kind, the call that came back in it and
\* what clear_cache did in it
VARIABLES cache, cache_ttl, now, inflight, runs, stored_at, returned, cleared, last_step

kvars == <<cache, cache_ttl, now, inflight, runs, stored_at, returned, cleared, last_step>>

\* middleware.py: self.clients; the dispatch calls that are awaiting
\* call_next; the number of times call_next was invoked; the number of
\* requests that arrived. History: every timestamp recorded for a client,
\* pruned or not, and of the last step the request it handled and the
\* response it gave
VARIABLES clients, handling, invoked, dispatched, accepted, request, reply

mvars == <<clients, handling, invoked, dispatched, accepted, request, reply>>

\* a bulk delete: the ids the caller listed, the filters of the deletes the
\* store received, and what the call returned
VARIABLES document_ids, deletes, outcome

bvars == <<document_ids, deletes, outcome>>

\* further arguments of list_documents_optimized: `fields`, with the call
\* made with it next to the same call made without it, and the `query` string
VARIABLES fields_arg, projected, query_string

fvars == <<fields_arg, projected, query_string>>

xvars == <<ovars, svars, kvars, mvars, bvars, fvars>>

vars == <<pvars, cvars, xvars>>

NoOffsetRequest ==
  /\ pending = None
  /\ snapshot = <<>>
  /\ store_calls = 0
  /\ writes = 0

NoReport == [raised |-> "pending"]

NoSchema ==
  /\ pydantic_model = NoModel
  /\ app = NoApp
  /\ report = NoReport

NoCache ==
  /\ cache = <<>>
  /\ cache_ttl = <<>>
  /\ now = 0
  /\ inflight = {}
  /\ runs = 0
  /\ stored_at = <<>>
  /\ returned = None
  /\ cleared = None
  /\ last_step = "none"

ClientIps == {"10.0.0.1", "unknown"}

NoTraffic ==
  /\ clients = [ip \in ClientIps |-> <<>>]
  /\ handling = {}
  /\ invoked = 0
  /\ dispatched = 0
  /\ accepted = [ip \in ClientIps |-> <<>>]
  /\ request = None
  /\ reply = None

NoBulk ==
  /\ document_ids = <<>>
  /\ deletes = <<>>
  /\ outcome = None

NoFields ==
  /\ fields_arg = <<>>
  /\ projected = None
  /\ query_string = QueryString(<<>>, [j |-> "empty"])

NoExtras == NoOffsetRequest /\ NoSchema /\ NoCache /\ NoTraffic /\ NoBulk /\ NoFields

NoFilter ==
  /\ heap = <<>>
  /\ heap0 = <<>>
  /\ input = None
  /\ out1 = None
  /\ out2 = None
  /\ calls = 0

Ids == 1..MaxId
Values == 1..MaxValue

Doc(id, v) == [_id |-> ObjectId(id), value |-> PyInt(v)]

\* every sequence of documents with pairwise distinct _id: the store holds
\* them in any order, unrelated to the order of their _id
Collections ==
  UNION {{c \in [1..n -> {Doc(id, v) : id \in Ids, v \in Values}] :
            \A i, j \in 1..n : i # j => c[i]["_id"] # c[j]["_id"]} : n \in 0..MaxId}

Queries == {EmptyDict, ("value" :> PyInt(1))}
SortFields == {NoSortField, "_id", "value"}
Limits == (1..MaxLimit) \cup {LimitCeiling + 1}

\* ObjectId() generated now sorts after the identifiers already stored
FreshId == MaxId + 1

NoResponse == [pagination_type |-> "none"]

\* initial: the collection as it was before the first request
InitRequest ==
  /\ NoFilter
  /\ NoExtras
  /\ collection \in Collections
  /\ initial = collection
  /\ query \in Queries
  /\ sort_field \in SortFields
  /\ sort_direction \in {1, -1}
  /\ limit \in Limits
  /\ pages = <<>>
  /\ response = NoResponse
  /\ done = FALSE

Init ==
  /\ InitRequest
  /\ use_cursor \in BOOLEAN
  /\ cursor = None

\* a client asks for the next page of a cursor traversal, passing the
\* next_cursor of the page before
ListDocumentsCursor ==
  /\ use_cursor
  /\ ~done
  /\ LET page == get_documents_cursor(collection, query, cursor, ClampLimit(limit),
                   IF sort_field # NoSortField THEN sort_field ELSE "_id",
                   sort_direction, FreshId)
     IN /\ pages' = Append(pages, page)
        /\ cursor' = page.next_cursor
        /\ done' = (page.next_cursor = None)
  /\ response' = list_documents_optimized(collection, query, 0, limit, sort_field,
                   sort_direction, cursor, TRUE, FreshId)
  /\ UNCHANGED <<collection, query, sort_field, sort_direction, limit, use_cursor,
                 initial>>
  /\ UNCHANGED cvars
  /\ UNCHANGED xvars

\* a client asks for one page by offset
ListDocumentsOffset ==
  /\ ~use_cursor
  /\ \E skip \in 0..MaxSkip :
       response' = list_documents_optimized(collection, query, skip, limit, sort_field,
                     sort_direction, None, FALSE, FreshId)
  /\ UNCHANGED <<collection, query, sort_field, sort_direction, limit, use_cursor,
                 cursor, pages, done, initial>>
  /\ UNCHANGED cvars
  /\ UNCHANGED xvars

Next == ListDocumentsCursor \/ ListDocumentsOffset

Spec == Init /\ [][Next]_vars

\* a cursor traversal under a filter that has a condition on _id or a $or of
\* its own, as a JSON query or the text search of services.py lines 84-88 give
CallerQueries ==
  {("_id" :> OpCond("$gt", ObjectId(1))),
   ("_id" :> OpCond("$lt", ObjectId(MaxId))),
   ("$or" :> OrCond(<<("value" :> PyInt(1))>>)),
   ("$or" :> OrCond(<<("value" :> PyInt(1)), ("_id" :> ObjectId(MaxId))>>))}

InitFiltered ==
  /\ NoFilter
  /\ NoExtras
  /\ collection \in Collections
  /\ initial = collection
  /\ query \in CallerQueries
  /\ sort_field \in SortFields
  /\ sort_direction \in {1, -1}
  /\ limit \in Limits
  /\ pages = <<>>
  /\ response = NoResponse
  /\ done = FALSE
  /\ use_cursor = TRUE
  /\ cursor = None

SpecFiltered == InitFiltered /\ [][ListDocumentsCursor]_vars

\* listings with a projection: a field every document has, _id alone, a
\* field no document has, and no projection
FieldLists == {<<>>, <<"value">>, <<"_id">>, <<"missing">>, <<"value", "missing">>}

InitProjected ==
  /\ NoFilter
  /\ NoOffsetRequest
  /\ NoSchema
  /\ NoCache
  /\ NoTraffic
  /\ NoBulk
  /\ collection \in Collections
  /\ initial = collection
  /\ query \in Queries
  /\ sort_field \in SortFields
  /\ sort_direction \in {1, -1}
  /\ limit \in 1..MaxLimit
  /\ pages = <<>>
  /\ response = NoResponse
  /\ done = FALSE
  /\ use_cursor \in BOOLEAN
  /\ cursor = None
  /\ fields_arg \in FieldLists
  /\ projected = None
  /\ query_string = QueryString(<<>>, [j |-> "empty"])

\* a client lists with `fields`: one page by offset, or the next page of a
\* cursor traversal
ListDocumentsFields ==
  /\ ~done
  /\ IF projected = None THEN TRUE ELSE projected.plain # None
  /\ \E skip \in 0..MaxSkip :
       /\ use_cursor => skip = 0
       /\ projected' = [skip |-> skip, cursor |-> cursor, plain |-> None,
                        result |-> list_documents_optimized_fields(collection, query, skip,
                                     limit, sort_field, sort_direction, cursor, use_cursor,
                                     fields_arg, FreshId)]
  /\ UNCHANGED <<pvars, cvars, ovars, svars, kvars, mvars, bvars, fields_arg, query_string>>

\* the same request is made without `fields`; a traversal goes on with the
\* cursor the projected page gave
ListDocumentsPlain ==
  /\ IF projected = None THEN FALSE ELSE projected.plain = None
  /\ LET plain == list_documents_optimized(collection, query, projected.skip, limit,
                    sort_field, sort_direction, projected.cursor, use_cursor, FreshId)
     IN /\ projected' = [projected EXCEPT !.plain = plain]
        /\ response' = plain
  /\ cursor' = projected.result.next_cursor
  /\ done' = (use_cursor /\ projected.result.next_cursor = None)
  /\ UNCHANGED <<collection, query, sort_field, sort_direction, limit, use_cursor,
                 pages, initial>>
  /\ UNCHANGED <<cvars, ovars, svars, kvars, mvars, bvars, fields_arg, query_string>>

NextProjected == ListDocumentsFields \/ ListDocumentsPlain

SpecProjected == InitProjected /\ [][NextProjected]_vars

\* listings with a query string: none, a text that is no JSON, JSON objects,
\* and JSON values that are no object
QueryStrings ==
  {QueryString(<<>>, [j |-> "empty"]),
   QueryString(<<"a", "b">>, [j |-> "invalid"]),
   QueryString(<<"{", "v", "}">>, JsonDumps(("value" :> PyInt(1)))),
   QueryString(<<"{", "i", "}">>, JsonDumps(("_id" :> PyStr([i \in 1..ObjectIdHexLen |-> "a"])))),
   QueryString(<<"1", "2", "3">>, [j |-> "number", n |-> 123]),
   QueryString(<<"t", "r", "u", "e">>, [j |-> "true"]),
   QueryString(<<"[", "1", "]">>, [j |-> "array", items |-> <<[j |-> "number", n |-> 1]>>])}

Names == {<<"A", "b">>, <<"c", "d">>, <<"2", "0", "2", "4", "-", "0", "1", "-", "0", "1">>}

NamedDoc(id, name) == [_id |-> ObjectId(id), value |-> PyInt(id), name |-> PyStr(name)]

\* collections of documents with a string field, and of documents without
NamedCollections ==
  UNION {{c \in [1..n -> {NamedDoc(id, name) : id \in Ids, name \in Names}] :
            \A i \in 1..n : c[i]["_id"] = ObjectId(i)} : n \in 0..2}
    \cup {<<Doc(1, 1)>>, <<Doc(1, 1), Doc(2, 1)>>}

InitQuery ==
  /\ NoFilter
  /\ NoOffsetRequest
  /\ NoSchema
  /\ NoCache
  /\ NoTraffic
  /\ NoBulk
  /\ collection \in NamedCollections
  /\ initial = collection
  /\ query = EmptyDict
  /\ sort_field = NoSortField
  /\ sort_direction = 1
  /\ limit \in 1..MaxLimit
  /\ pages = <<>>
  /\ response = NoResponse
  /\ done = FALSE
  /\ use_cursor \in BOOLEAN
  /\ cursor = None
  /\ fields_arg = <<>>
  /\ projected = None
  /\ query_string \in QueryStrings

\* services.py lines 31-185: a listing with a query string; query: the
\* filter the store is asked with
ListDocumentsQuery ==
  /\ response = NoResponse
  /\ LET mongo_query == BuildMongoQuery(collection, query_string)
     IN /\ query' = mongo_query
        /\ response' = list_documents_optimized(collection, mongo_query, 0, limit,
                         sort_field, sort_direction, cursor, use_cursor, FreshId)
  /\ UNCHANGED <<collection, sort_field, sort_direction, limit, use_cursor, cursor, pages,
                 done, initial>>
  /\ UNCHANGED cvars
  /\ UNCHANGED xvars

SpecQuery == InitQuery /\ [][ListDocumentsQuery]_vars

\* a traversal whose first request carries a cursor string that is no valid
\* token
TamperedCursors ==
  {CursorNotBase64, CursorNotJson,
   B64Encode([j |-> "number", n |-> 5]),
   B64Encode([j |-> "array", items |-> <<[j |-> "number", n |-> 1]>>]),
   B64Encode(JsonDumps(("value" :> PyInt(1)))),
   B64Encode(JsonDumps(("_id" :> PyStr("not-an-id") @@ "value" :> PyInt(1)))),
   B64Encode(JsonDumps(("_id" :> PyInt(5) @@ "value" :> PyInt(1))))}

InitTampered ==
  /\ InitRequest
  /\ use_cursor = TRUE
  /\ cursor \in TamperedCursors

SpecTampered == InitTampered /\ [][ListDocumentsCursor]_vars

\* another client inserts a document between two page requests of the
\* traversal; the store appends it to its natural order
InsertDocument ==
  /\ use_cursor
  /\ ~done
  /\ pages # <<>>
  /\ \E id \in Ids, v \in Values :
       /\ \A i \in DOMAIN collection : collection[i]["_id"] # ObjectId(id)
       /\ collection' = Append(collection, Doc(id, v))
  /\ UNCHANGED <<query, sort_field, sort_direction, limit, use_cursor, cursor, pages,
                 response, done, initial>>
  /\ UNCHANGED cvars
  /\ UNCHANGED xvars

InitInsert ==
  /\ InitRequest
  /\ use_cursor = TRUE
  /\ cursor = None

NextInsert == ListDocumentsCursor \/ InsertDocument

SpecInsert == InitInsert /\ [][NextInsert]_vars

\* a client searches with a filter given as a dict
SearchDocuments ==
  /\ ~use_cursor
  /\ \E skip \in 0..MaxSkip :
       response' = search_documents_optimized(collection, query, skip, limit, sort_field,
                     sort_direction)
  /\ UNCHANGED <<collection, query, sort_field, sort_direction, limit, use_cursor,
                 cursor, pages, done, initial>>
  /\ UNCHANGED cvars
  /\ UNCHANGED xvars

\* collections about as large as the limit ceiling, and limits around it up to
\* the largest the router lets through
RouterLimitMax == 1000

BigCollection(n) == [i \in 1..n |-> Doc(i, (i % MaxValue) + 1)]

BigCollections == {BigCollection(LimitCeiling), BigCollection(LimitCeiling + 1)}

BigLimits == {LimitCeiling, LimitCeiling + 1, RouterLimitMax}

InitClamp ==
  /\ NoFilter
  /\ NoExtras
  /\ collection \in BigCollections
  /\ initial = collection
  /\ query = EmptyDict
  /\ sort_field \in SortFields
  /\ sort_direction \in {1, -1}
  /\ limit \in BigLimits
  /\ pages = <<>>
  /\ response = NoResponse
  /\ done = FALSE
  /\ use_cursor \in BOOLEAN
  /\ cursor = None

NextClamp == ListDocumentsCursor \/ ListDocumentsOffset \/ SearchDocuments

SpecClamp == InitClamp /\ [][NextClamp]_vars

\* ------------------------------- an offset request among concurrent writes
\* services.py lines 136-164: the request sends its one pipeline; the store
\* runs $match, $sort and both $facet branches over the collection as it is
RunAggregate ==
  /\ ~use_cursor
  /\ ~done
  /\ pending = None
  /\ \E skip \in 0..MaxSkip :
       pending' = [skip |-> skip,
                   facet_result |-> Aggregate(collection, query, sort_field,
                                              sort_direction, skip, ClampLimit(limit))]
  /\ snapshot' = collection
  /\ store_calls' = store_calls + 1
  /\ UNCHANGED <<writes, svars, kvars, mvars, bvars, fvars>>
  /\ UNCHANGED pvars
  /\ UNCHANGED cvars

\* mutant: the total is read by a second store call when the rows are back
ReturnOffsetPage_recount ==
  /\ pending # None
  /\ response' = [OffsetResponse(pending.facet_result, pending.skip, ClampLimit(limit))
                    EXCEPT !.total = Len(Find(collection, query))]
  /\ pending' = None
  /\ done' = TRUE
  /\ store_calls' = store_calls + 1
  /\ UNCHANGED <<snapshot, writes, svars, kvars, mvars, bvars, fvars>>
  /\ UNCHANGED <<collection, query, sort_field, sort_direction, limit, use_cursor,
                 cursor, pages, initial>>
  /\ UNCHANGED cvars

\* services.py lines 166-185: the request builds its result from the facet
\* document it received
ReturnOffsetPage ==
  /\ pending # None
  /\ response' = OffsetResponse(pending.facet_result, pending.skip, ClampLimit(limit))
  /\ pending' = None
  /\ done' = TRUE
  /\ UNCHANGED <<snapshot, store_calls, writes, svars, kvars, mvars, bvars, fvars>>
  /\ UNCHANGED <<collection, query, sort_field, sort_direction, limit, use_cursor,
                 cursor, pages, initial>>
  /\ UNCHANGED cvars

\* another client inserts a document while the request is in flight
WriteInsert ==
  /\ pending # None
  /\ writes < MaxWrites
  /\ \E id \in Ids, v \in Values :
       /\ \A i \in DOMAIN collection : collection[i]["_id"] # ObjectId(id)
       /\ collection' = Append(collection, Doc(id, v))
  /\ writes' = writes + 1
  /\ UNCHANGED <<pending, snapshot, store_calls, svars, kvars, mvars, bvars, fvars>>
  /\ UNCHANGED <<query, sort_field, sort_direction, limit, use_cursor, cursor, pages,
                 response, done, initial>>
  /\ UNCHANGED cvars

\* another client deletes a document while the request is in flight
WriteDelete ==
  /\ pending # None
  /\ writes < MaxWrites
  /\ \E i \in DOMAIN collection :
       collection' = SubSeq(collection, 1, i - 1) \o SubSeq(collection, i + 1, Len(collection))
  /\ writes' = writes + 1
  /\ UNCHANGED <<pending, snapshot, store_calls, svars, kvars, mvars, bvars, fvars>>
  /\ UNCHANGED <<query, sort_field, sort_direction, limit, use_cursor, cursor, pages,
                 response, done, initial>>
  /\ UNCHANGED cvars

\* collections holding the identifiers 1..n in that order
OrderedCollections ==
  {c \in Collections : \A i \in DOMAIN c : c[i]["_id"] = ObjectId(i)}

InitWrites ==
  /\ NoFilter
  /\ NoExtras
  /\ collection \in OrderedCollections
  /\ initial = collection
  /\ query \in Queries
  /\ sort_field \in {NoSortField, "value"}
  /\ sort_direction \in {1, -1}
  /\ limit \in 1..MaxLimit
  /\ pages = <<>>
  /\ response = NoResponse
  /\ done = FALSE
  /\ use_cursor = FALSE
  /\ cursor = None

NextWrites == RunAggregate \/ ReturnOffsetPage \/ WriteInsert \/ WriteDelete

SpecWrites == InitWrites /\ [][NextWrites]_vars

\* ------------------------------------------------------ schema requests
FieldNames == {"name", "age"}

FieldMaps(Types) == UNION {[N -> Types] : N \in SUBSET FieldNames}

Models ==
  {NoModel}
  \cup {[kind |-> "model", fields |-> f] : f \in FieldMaps({"str", "int"})}
  \cup {[kind |-> "broken", raises |-> e] : e \in {"TypeError", "AttributeError"}}

Apps ==
  {NoApp}
  \cup {[kind |-> "app", openapi |-> [kind |-> "raises", e |-> e]] :
          e \in {"KeyError", "RuntimeError"}}
  \cup {[kind |-> "app", openapi |-> [kind |-> "schemas", schema_def |-> d]] :
          d \in {None} \cup FieldMaps({"string", "integer"})}

\* the idle values of the variables of list requests
NoRequest ==
  /\ collection = <<>>
  /\ initial = <<>>
  /\ query = EmptyDict
  /\ sort_field = NoSortField
  /\ sort_direction = 1
  /\ limit = 1
  /\ use_cursor = FALSE
  /\ cursor = None
  /\ pages = <<>>
  /\ response = NoResponse
  /\ done = FALSE

InitSchema ==
  /\ NoFilter
  /\ NoOffsetRequest
  /\ NoCache
  /\ NoTraffic
  /\ NoBulk
  /\ NoFields
  /\ NoRequest
  /\ pydantic_model \in Models
  /\ app \in Apps
  /\ report = NoReport

\* a client asks for the schema of the collection
GetCollectionSchema ==
  /\ report = NoReport
  /\ report' = get_collection_schema(pydantic_model, app)
  /\ UNCHANGED <<pydantic_model, app>>
  /\ UNCHANGED <<pvars, cvars, ovars, kvars, mvars, bvars, fvars>>

SpecSchema == InitSchema /\ [][GetCollectionSchema]_vars

\* ------------------------------------------------- calls through the cache
FuncNames == {<<"f", "a">>, <<"f", "b">>}

\* an int, an identifier, and the string that str() gives for the identifier
CacheArgs == {PyInt(1), ObjectId(1), PyStr(ObjectIdStr(1))}

Patterns == {None, PyStr(<<"f", "a">>), PyStr(<<"a">>), PyStr(<<"z">>)}

\* lines 47-57: the wrapper builds the key, reads the clock and looks the key
\* up; a fresh entry is returned, otherwise the wrapped function is awaited.
\* id tells the calls in flight apart
Wrapper ==
  /\ \E name \in FuncNames, a \in CacheArgs :
       LET cache_key == CacheKey(name, a)
           call == [name |-> name, args |-> a, cache_key |-> cache_key,
                    current_time |-> now, id |-> runs + Cardinality(inflight) + 1]
       IN IF cache_key \in DOMAIN cache /\ now - cache[cache_key].cached_time < Ttl
          THEN /\ returned' = [call |-> call, raised |-> "none", executed |-> FALSE,
                               result |-> cache[cache_key].result]
               /\ last_step' = "hit"
               /\ UNCHANGED inflight
          ELSE /\ runs + Cardinality(inflight) < MaxRuns
               /\ inflight' = inflight \cup {call}
               /\ last_step' = "miss"
               /\ returned' = None
  /\ cleared' = None
  /\ UNCHANGED <<cache, cache_ttl, now, runs, stored_at>>
  /\ UNCHANGED <<pvars, cvars, ovars, svars, mvars, bvars, fvars>>

\* a call made when no other call is awaiting its function
CallWrapper == inflight = {} /\ Wrapper

\* a call made while another call is awaiting its function
CallWrapperOverlapping == inflight # {} /\ Wrapper

\* lines 57-61: the wrapped function returns, the result is stored under the
\* key with the time read before the call
FuncReturns ==
  /\ \E call \in inflight :
       LET result == Func(call.name, call.args, runs + 1)
       IN /\ cache' = Put(cache, call.cache_key,
                           [result |-> result, cached_time |-> call.current_time])
          /\ cache_ttl' = Put(cache_ttl, call.cache_key, Ttl)
          /\ stored_at' = Put(stored_at, call.cache_key, now)
          /\ inflight' = inflight \ {call}
          /\ returned' = [call |-> call, raised |-> "none", executed |-> TRUE,
                          result |-> result]
  /\ runs' = runs + 1
  /\ last_step' = "stored"
  /\ cleared' = None
  /\ UNCHANGED now
  /\ UNCHANGED <<pvars, cvars, ovars, svars, mvars, bvars, fvars>>

\* line 57: the wrapped function raises, the exception leaves the wrapper
FuncRaises ==
  /\ \E call \in inflight :
       /\ inflight' = inflight \ {call}
       /\ returned' = [call |-> call, raised |-> "Exception", executed |-> TRUE,
                       result |-> None]
  /\ runs' = runs + 1
  /\ last_step' = "raised"
  /\ cleared' = None
  /\ UNCHANGED <<cache, cache_ttl, now, stored_at>>
  /\ UNCHANGED <<pvars, cvars, ovars, svars, mvars, bvars, fvars>>

\* time passes
Tick ==
  /\ now < MaxTime
  /\ now' = now + 1
  /\ last_step' = "tick"
  /\ returned' = None
  /\ cleared' = None
  /\ UNCHANGED <<cache, cache_ttl, inflight, runs, stored_at>>
  /\ UNCHANGED <<pvars, cvars, ovars, svars, mvars, bvars, fvars>>

\* lines 68-89
ClearCache ==
  /\ \E pattern \in Patterns :
       LET keys_to_remove == IF pattern = None THEN DOMAIN cache
                             ELSE KeysToRemove(cache, pattern.s)
       IN /\ cache' = Without(cache, keys_to_remove)
          /\ cache_ttl' = TtlWithout(cache_ttl, keys_to_remove)
          /\ stored_at' = Without(stored_at, keys_to_remove)
          /\ cleared' = [pattern |-> pattern, count |-> Cardinality(keys_to_remove)]
  /\ last_step' = "cleared"
  /\ returned' = None
  /\ UNCHANGED <<now, inflight, runs>>
  /\ UNCHANGED <<pvars, cvars, ovars, svars, mvars, bvars, fvars>>

InitCache ==
  /\ NoFilter
  /\ NoOffsetRequest
  /\ NoSchema
  /\ NoCache
  /\ NoTraffic
  /\ NoBulk
  /\ NoFields
  /\ NoRequest

NextCache == CallWrapper \/ FuncReturns \/ FuncRaises \/ Tick \/ ClearCache

SpecCache == InitCache /\ [][NextCache]_vars

\* calls that may overlap
NextOverlap == NextCache \/ CallWrapperOverlapping

SpecOverlap == InitCache /\ [][NextOverlap]_vars

\* ------------------------------------------- requests through the rate limit
Clients == {None, Address("10.0.0.1")}

Paths == {<<"/", "d", "x">>, <<"/", "a">>}

\* what the downstream handler answers
HandlerResponse == [status_code |-> 200]

\* lines 62-100, up to the await of call_next: a request arrives. An exempt
\* path goes to call_next and its response is returned as it is, with nothing
\* read or written in between; otherwise the client's list is pruned and the
\* request is either answered with 429 or recorded and handed to call_next
Dispatch ==
  /\ dispatched < MaxRequests
  /\ \E client \in Clients, path \in Paths :
       LET client_ip == get_client_ip(client)
           kept == Prune(clients[client_ip], now)
           id == dispatched + 1
       IN /\ request' = [client |-> client, path |-> path, client_ip |-> client_ip]
          /\ IF IsExempt(path)
             THEN /\ invoked' = invoked + 1
                  /\ reply' = HandlerResponse
                  /\ last_step' = "exempt"
                  /\ UNCHANGED <<clients, handling, accepted>>
             ELSE IF LimitReached(kept)
             THEN /\ clients' = [clients EXCEPT ![client_ip] = kept]
                  /\ reply' = RateLimitResponse
                  /\ last_step' = "rejected"
                  /\ UNCHANGED <<handling, invoked, accepted>>
             ELSE /\ clients' = [clients EXCEPT ![client_ip] = Append(kept, now)]
                  /\ accepted' = [accepted EXCEPT ![client_ip] = Append(@, now)]
                  /\ handling' = handling \cup {[id |-> id, client_ip |-> client_ip, now |-> now]}
                  /\ invoked' = invoked + 1
                  /\ reply' = None
                  /\ last_step' = "forwarded"
  /\ dispatched' = dispatched + 1
  /\ UNCHANGED <<cache, cache_ttl, now, inflight, runs, stored_at, returned, cleared>>
  /\ UNCHANGED <<pvars, cvars, ovars, svars, bvars, fvars>>

\* lines 100-108: call_next comes back and the response gets the rate limit
\* headers
CallNextReturns ==
  /\ \E h \in handling :
       /\ handling' = handling \ {h}
       /\ request' = [client |-> None, path |-> <<>>, client_ip |-> h.client_ip]
       /\ reply' = [status_code |-> HandlerResponse.status_code,
                    limit |-> Calls,
                    remaining |-> Calls - Len(clients[h.client_ip]),
                    reset |-> h.now + Period]
  /\ last_step' = "responded"
  /\ UNCHANGED <<clients, invoked, dispatched, accepted>>
  /\ UNCHANGED <<cache, cache_ttl, now, inflight, runs, stored_at, returned, cleared>>
  /\ UNCHANGED <<pvars, cvars, ovars, svars, bvars, fvars>>

InitRate ==
  /\ NoFilter
  /\ NoExtras
  /\ NoRequest

NextRate == Dispatch \/ CallNextReturns \/ Tick

SpecRate == InitRate /\ [][NextRate]_vars

\* ------------------------------------------------------------- bulk delete
\* ids of stored documents, a well-formed id no document has, and two
\* strings that are no identifier
IdStrings ==
  {PyStr(ObjectIdStr(id)) : id \in 1..FreshId}
    \cup {PyStr("invalid_id_1"), PyStr("zzzzzzzzzzzzzzzzzzzzzzzz")}

IdLists == UNION {[1..n -> IdStrings] : n \in 0..MaxListLen}

InitBulk ==
  /\ NoFilter
  /\ NoOffsetRequest
  /\ NoSchema
  /\ NoCache
  /\ NoTraffic
  /\ collection \in OrderedCollections
  /\ initial = collection
  /\ query = EmptyDict
  /\ sort_field = NoSortField
  /\ sort_direction = 1
  /\ limit = 1
  /\ use_cursor = FALSE
  /\ cursor = None
  /\ pages = <<>>
  /\ response = NoResponse
  /\ done = FALSE
  /\ document_ids \in IdLists
  /\ deletes = <<>>
  /\ outcome = None
  /\ NoFields

\* services.py lines 366-396
BulkDeleteDocuments ==
  /\ outcome = None
  /\ LET r == bulk_delete_documents(collection, document_ids)
     IN /\ collection' = r.collection
        /\ deletes' = deletes \o r.deletes
        /\ outcome' = [x \in DOMAIN r \ {"deletes", "collection"} |-> r[x]]
  /\ UNCHANGED <<query, sort_field, sort_direction, limit, use_cursor, cursor, pages,
                 response, done, initial, document_ids>>
  /\ UNCHANGED <<cvars, ovars, svars, kvars, mvars, fvars>>

SpecBulk == InitBulk /\ [][BulkDeleteDocuments]_vars

\* collections whose sort field holds values of several BSON types, or is
\* missing
TypedValues ==
  {PyInt(1), None, Datetime(1), Datetime(2), ObjectId(1), PyStr("a"), PyBool(TRUE)}

TypedDocs(id) ==
  {[_id |-> ObjectId(id)]} \cup {[_id |-> ObjectId(id), value |-> v] : v \in TypedValues}

TypedCollections ==
  UNION {{c \in [1..n -> UNION {TypedDocs(id) : id \in Ids}] :
            \A i \in 1..n : c[i]["_id"] = ObjectId(i)} : n \in 0..MaxId}

InitTyped ==
  /\ NoFilter
  /\ NoExtras
  /\ collection \in TypedCollections
  /\ initial = collection
  /\ query = EmptyDict
  /\ sort_field \in {"_id", "value"}
  /\ sort_direction \in {1, -1}
  /\ limit \in 1..MaxLimit
  /\ pages = <<>>
  /\ response = NoResponse
  /\ done = FALSE
  /\ use_cursor = TRUE
  /\ cursor = None

SpecTyped == InitTyped /\ [][ListDocumentsCursor]_vars

\* ---------------------------------------------- filters to normalise
Rep(c, n) == [i \in 1..n |-> c]

HexLower == PyStr(Rep("a", ObjectIdHexLen))
HexUpper == PyStr(Rep("A", ObjectIdHexLen))
NonHex24 == PyStr(Rep("z", ObjectIdHexLen))
Short == PyStr(<<"a", "b">>)

Leaves == {HexLower, HexUpper, NonHex24, Short, PyInt(7)}

ListsOver(E) == UNION {{PyList(l) : l \in [1..n -> E]} : n \in 0..MaxListLen}

\* what a list value can hold: scalars, filters, a nested list
ListElements ==
  Leaves \cup
  {PyDict(("_id" :> HexLower)), PyDict(("_id" :> Short)), PyDict(("ref" :> HexLower)),
   PyDict(("_id" :> PyDict(("$in" :> PyList(<<HexUpper>>))))),
   PyList(<<HexLower>>)}

OperatorDicts ==
  {PyDict((op :> x)) : op \in {"$in", "$nin", "$eq", "$gt"},
                       x \in Leaves \cup ListsOver(Leaves)}

FieldValues == Leaves \cup ListsOver(ListElements) \cup OperatorDicts

Filters ==
  {PyDict((k :> x)) : k \in {"_id", "ref", "$or"}, x \in FieldValues}
  \cup {PyDict(("_id" :> x @@ "ref" :> y)) : x, y \in Leaves}

\* what a caller can pass that is no dict
NonDicts == {PyList(<<HexLower>>), HexLower}

InitConvert ==
  /\ NoExtras
  /\ \E tree \in Filters \cup NonDicts :
       /\ heap = Build(<<>>, tree).h
       /\ input = Build(<<>>, tree).v
  /\ heap0 = heap
  /\ out1 = None
  /\ out2 = None
  /\ calls = 0
  /\ collection = <<>>
  /\ initial = <<>>
  /\ query = EmptyDict
  /\ sort_field = NoSortField
  /\ sort_direction = 1
  /\ limit = 1
  /\ use_cursor = FALSE
  /\ cursor = None
  /\ pages = <<>>
  /\ response = NoResponse
  /\ done = FALSE

\* the caller normalises its filter
Convert ==
  /\ calls = 0
  /\ heap' = convert_object_ids_in_query(heap, input).h
  /\ out1' = convert_object_ids_in_query(heap, input).v
  /\ calls' = 1
  /\ UNCHANGED <<heap0, input, out2>>
  /\ UNCHANGED pvars
  /\ UNCHANGED xvars

\* the caller normalises the filter it got back
ConvertAgain ==
  /\ calls = 1
  /\ heap' = convert_object_ids_in_query(heap, out1).h
  /\ out2' = convert_object_ids_in_query(heap, out1).v
  /\ calls' = 2
  /\ UNCHANGED <<heap0, input, out1>>
  /\ UNCHANGED pvars
  /\ UNCHANGED xvars

NextConvert == Convert \/ ConvertAgain

SpecConvert == InitConvert /\ [][NextConvert]_vars

\* --------------------------------------------------------------- claims
SortFieldFinal == IF sort_field # NoSortField THEN sort_field ELSE "_id"

RECURSIVE Flatten(_)
Flatten(ps) == IF ps = <<>> THEN <<>> ELSE Head(ps).documents \o Flatten(Tail(ps))

Visited == Flatten(pages)

Range(s) == {s[i] : i \in DOMAIN s}

Occurrences(s, d) == Cardinality({i \in DOMAIN s : s[i] = d})

\* weakly ordered by the sort field in the requested direction
InSortOrder(s, field, direction) ==
  \A i, j \in DOMAIN s : i < j => ~Before(Get(s[j], field), Get(s[i], field), direction)

\* strictly ordered by the compound key (field, _id) in the requested direction
InCompoundOrder(s, field, direction) ==
  \A i, j \in DOMAIN s :
    i < j => \/ Before(Get(s[i], field), Get(s[j], field), direction)
             \/ /\ Get(s[i], field) = Get(s[j], field)
                /\ Before(s[i]["_id"], s[j]["_id"], direction)

\* C1: over an unchanging collection, a cursor traversal started with no
\* cursor and continued with each page's next_cursor returns every document
\* matching the query exactly once, in sort order, and ends on a page with
\* has_more = false, also when documents share a sort_field value.
C1_TraversalVisitsEachOnce ==
  (use_cursor /\ done) =>
    /\ \A i \in DOMAIN pages : pages[i].raised = "none"
    /\ \A d \in Range(Find(collection, query)) : Occurrences(Visited, d) = 1
    /\ Range(Visited) \subseteq Range(Find(collection, query))
    /\ InSortOrder(Visited, SortFieldFinal, sort_direction)
    /\ pages[Len(pages)].has_more = FALSE

\* C2: a cursor string that is no valid token makes get_documents_cursor
\* raise nothing and return the page a call without cursor returns.
C2_InvalidCursorIsNoCursor ==
  pages # <<>> =>
    LET first == get_documents_cursor(collection, query, None, ClampLimit(limit),
                                      SortFieldFinal, sort_direction, FreshId)
    IN /\ pages[1].raised = "none"
       /\ pages[1].documents = first.documents
       /\ pages[1].has_more = first.has_more
       /\ pages[1].next_cursor = first.next_cursor

\* C3 as stated: has_more is true exactly when the page holds limit documents.
C3_HasMoreIffPageFull ==
  \A i \in DOMAIN pages :
    pages[i].has_more = (Len(pages[i].documents) = pages[i].limit)

\* C3 as amended: has_more is true exactly when more than limit documents
\* match the page's query; then the page holds exactly limit documents, and
\* otherwise it holds all the matching documents, which may be limit many.
C3_HasMoreIffMoreRemain ==
  \A i \in DOMAIN pages :
    LET matched == Len(Find(collection, pages[i].mongo_query))
    IN /\ pages[i].has_more = (matched > pages[i].limit)
       /\ pages[i].has_more => Len(pages[i].documents) = pages[i].limit
       /\ ~pages[i].has_more => Len(pages[i].documents) = matched

C3_Witness ==
  /\ Len(pages) = 2
  /\ pages[1].has_more
  /\ ~pages[2].has_more
  /\ Len(pages[2].documents) = pages[2].limit

\* C4: every page result, of cursor mode and of offset mode, holds at most
\* limit documents.
C4_AtMostLimit ==
  /\ \A i \in DOMAIN pages : Len(pages[i].documents) <= pages[i].limit
  /\ response # NoResponse => Len(response.documents) <= response.limit

C4_Witness ==
  /\ response # NoResponse
  /\ response.pagination_type = "offset"
  /\ response.skip > 0
  /\ response.total > response.skip + response.limit
  /\ Len(response.documents) = response.limit

\* C5: next_cursor is present exactly when has_more is true, and it then
\* carries the _id and the sort_field value of the last document of the page
\* returned.
C5_NextCursorOfLastRow ==
  \A i \in DOMAIN pages :
    /\ (pages[i].next_cursor # None) = pages[i].has_more
    /\ pages[i].has_more =>
         LET last == pages[i].documents[Len(pages[i].documents)]
             decoded == DecodeCursor(pages[i].next_cursor)
         IN /\ decoded.t = "dict"
            /\ Get(decoded.kv, "_id") = PyStr(ObjectIdStr(last["_id"].o))
            /\ SortFieldFinal # "_id" =>
                 Get(decoded.kv, SortFieldFinal) = Get(last, SortFieldFinal)

C5_Witness ==
  /\ pages # <<>>
  /\ pages[1].has_more
  /\ pages[1].next_cursor # None
  /\ SortFieldFinal = "value"

\* C6: the rows of every cursor-mode page are ordered by the compound key
\* (sort_field, _id) in the requested direction, so rows with equal sort_field
\* values come in _id order.
C6_PageInCompoundOrder ==
  \A i \in DOMAIN pages :
    InCompoundOrder(pages[i].documents, SortFieldFinal, sort_direction)

\* C7: when documents are inserted between the page requests of a cursor
\* traversal, every document present before the first request is still
\* returned exactly once and no document is returned twice.
C7_InsertsKeepTraversalComplete ==
  (done /\ Len(collection) > Len(initial)) =>
    /\ \A d \in Range(Find(initial, query)) : Occurrences(Visited, d) = 1
    /\ \A i, j \in DOMAIN Visited : i # j => Visited[i]["_id"] # Visited[j]["_id"]

\* base64.urlsafe_b64decode, then json.loads, of a token
DecodeToken(token) == JsonLoads(token.text)

\* C8: the next_cursor built from a document decodes (URL-safe base64, then
\* JSON) to a record whose _id and sort_field values have the string forms of
\* the document's values.
C8_TokenRoundTrip ==
  \A i \in DOMAIN pages :
    pages[i].next_cursor # None =>
      LET last == pages[i].documents[Len(pages[i].documents)]
          decoded == DecodeToken(pages[i].next_cursor)
      IN /\ decoded.t = "dict"
         /\ Str(Get(decoded.kv, "_id")) = Str(last["_id"])
         /\ Str(Get(decoded.kv, SortFieldFinal)) = Str(Get(last, SortFieldFinal))

C8_Witness ==
  /\ pages # <<>>
  /\ pages[1].next_cursor # None
  /\ sort_field = "value"
  /\ Get(pages[1].documents[Len(pages[1].documents)], "value").t = "date"

\* C9: convert_object_ids_in_query is idempotent: converting the converted
\* filter gives a filter equal to it.
C9_ConvertIdempotent ==
  calls = 2 => Deref(heap, out2) = Deref(heap, out1)

C9_Witness ==
  /\ calls = 2
  /\ IsDict(heap0, input)
  /\ Deref(heap, out1) # Deref(heap0, input)

\* C10: convert_object_ids_in_query never mutates its input: after the call
\* every dict and list of the caller's filter holds what it held before, and
\* the converted filter of a dict is a new object, none of the caller's.
C10_InputNotMutated ==
  calls >= 1 =>
    /\ \A a \in DOMAIN heap0 : heap[a] = heap0[a]
    /\ Deref(heap, input) = Deref(heap0, input)
    /\ IsDict(heap0, input) => out1.t = "ref" /\ out1.a \notin DOMAIN heap0

C10_Witness ==
  /\ calls = 1
  /\ IsDict(heap0, input)
  /\ Deref(heap, out1) # Deref(heap, input)
  /\ Reach(heap0, input) # {input.a}

\* the filter the caller passed and the filter it got back, as values
InputTree == Deref(heap0, input)
OutputTree == Deref(heap, out1)

IsScalar(v) == v.t \notin {"dict", "list"}

\* b has the shape of a, and differs from it only where a holds a string of
\* 24 hexadecimal characters and b the identifier that string denotes
RECURSIVE OnlyCandidatesAltered(_, _)
OnlyCandidatesAltered(a, b) ==
  \/ a = b
  \/ /\ a.t = "dict" /\ b.t = "dict" /\ DOMAIN a.kv = DOMAIN b.kv
     /\ \A k \in DOMAIN a.kv : OnlyCandidatesAltered(a.kv[k], b.kv[k])
  \/ /\ a.t = "list" /\ b.t = "list" /\ Len(a.l) = Len(b.l)
     /\ \A i \in DOMAIN a.l : OnlyCandidatesAltered(a.l[i], b.l[i])
  \/ /\ IsCandidate(a)
     /\ b = ObjectIdHex([i \in DOMAIN a.s |-> Lower(a.s[i])])

RECURSIVE HasRaise(_)
HasRaise(v) ==
  \/ v.t = "raise"
  \/ v.t = "dict" /\ \E k \in DOMAIN v.kv : HasRaise(v.kv[k])
  \/ v.t = "list" /\ \E i \in DOMAIN v.l : HasRaise(v.l[i])

\* b has the shape of a, and every string of a that the identifier
\* constructor rejects is in b at the same place
RECURSIVE RejectedStringsKept(_, _)
RejectedStringsKept(a, b) ==
  IF a.t = "dict"
  THEN /\ b.t = "dict" /\ DOMAIN a.kv = DOMAIN b.kv
       /\ \A k \in DOMAIN a.kv : RejectedStringsKept(a.kv[k], b.kv[k])
  ELSE IF a.t = "list"
  THEN /\ b.t = "list" /\ Len(a.l) = Len(b.l)
       /\ \A i \in DOMAIN a.l : RejectedStringsKept(a.l[i], b.l[i])
  ELSE (IsStr(a) /\ ~IsCandidate(a)) => b = a

\* C12: convert_object_ids_in_query raises nothing, whatever it is given (a
\* filter of any shape, a value that is no dict, an operator whose value has
\* the wrong type), and a string that does not convert to an identifier is
\* in the output where it was in the input.
C12_NeverRaises ==
  calls >= 1 =>
    /\ ~HasRaise(OutputTree)
    /\ RejectedStringsKept(InputTree, OutputTree)

C12_Witness ==
  /\ calls = 1
  /\ InputTree.t = "dict"
  /\ "_id" \in DOMAIN InputTree.kv
  /\ InputTree.kv["_id"].t = "dict"
  /\ "$eq" \in DOMAIN InputTree.kv["_id"].kv
  /\ InputTree.kv["_id"].kv["$eq"] = NonHex24

\* C13: in offset mode the total reported is the number of documents that
\* match the filter, whatever skip and limit are, also when skip lies beyond
\* the last document and when the limit was clamped.
C13_TotalIsMatchCount ==
  (response # NoResponse /\ response.pagination_type = "offset") =>
    response.total = Len(Find(collection, query))

C13_Witness ==
  /\ response # NoResponse
  /\ response.pagination_type = "offset"
  /\ response.total > 0
  /\ response.skip >= response.total
  /\ response.documents = <<>>
  /\ limit > LimitCeiling
  /\ response.limit = LimitCeiling

\* C14: a requested limit above the ceiling of 200 is clamped to 200 and not
\* rejected, by list_documents_optimized in both modes and by
\* search_documents_optimized: the result's limit is the clamped value and it
\* holds at most 200 documents.
C14_LimitClamped ==
  response # NoResponse =>
    /\ response.raised = "none"
    /\ response.limit = (IF limit > LimitCeiling THEN LimitCeiling ELSE limit)
    /\ Len(response.documents) <= LimitCeiling
    /\ \A i \in DOMAIN pages : Len(pages[i].documents) <= LimitCeiling

C14_Witness ==
  /\ response # NoResponse
  /\ "pagination_type" \notin DOMAIN response
  /\ limit = RouterLimitMax
  /\ response.limit = LimitCeiling
  /\ response.total > LimitCeiling
  /\ Len(response.documents) = LimitCeiling

\* C15: offset mode gets the rows and the total from one store operation,
\* the one aggregate, so that whatever other clients write meanwhile, the rows
\* and the total of a result are those of one and the same state of the
\* collection.
C15_RowsAndTotalOfOneState ==
  (done /\ response # NoResponse) =>
    /\ store_calls = 1
    /\ response = list_documents_optimized(snapshot, query, response.skip, limit,
                     sort_field, sort_direction, None, FALSE, FreshId)

C15_Witness ==
  /\ done
  /\ response # NoResponse
  /\ writes > 0
  /\ response.total # Len(Find(collection, query))
  /\ response.documents # <<>>

\* the field map a source holds, empty when the source is absent or broken
ContractFields ==
  IF pydantic_model.kind = "model" THEN pydantic_model.fields ELSE <<>>

RegistryFields ==
  IF app # NoApp /\ app.openapi.kind = "schemas" /\ app.openapi.schema_def # None
  THEN app.openapi.schema_def ELSE <<>>

\* C16: the sources are read in the order contract model, registry; when the
\* contract model gives a non-empty field map the registry is not read, and
\* every field reported has the contract model's type, also where the
\* registry declares another type for the same field.
C16_ContractModelWins ==
  (report # NoReport /\ DOMAIN ContractFields # {}) =>
    /\ report.raised = "none"
    /\ report.consulted = <<"pydantic_model">>
    /\ DOMAIN report.schema.fields = DOMAIN ContractFields
    /\ \A n \in DOMAIN ContractFields :
         report.schema.fields[n].type = PydanticFieldType(ContractFields[n])

C16_Witness ==
  /\ report # NoReport
  /\ "name" \in DOMAIN ContractFields
  /\ "name" \in DOMAIN RegistryFields
  /\ PydanticFieldType(ContractFields["name"]) # OpenApiFieldType(RegistryFields["name"])
  /\ report.schema.fields["name"].type = "int"

\* C17: a source that fails does not abort inference: when inference from
\* the contract model raises, the registry is read next as if the model had
\* been empty, and when the registry lookup raises the result is a report
\* with no fields, not an error.
C17_SourceFailureFallsThrough ==
  report # NoReport =>
    /\ report.raised = "none"
    /\ (pydantic_model.kind = "broken" /\ app # NoApp) =>
         /\ report.consulted = <<"pydantic_model", "openapi_schema">>
         /\ DOMAIN report.schema.fields = DOMAIN RegistryFields
         /\ \A n \in DOMAIN RegistryFields :
              report.schema.fields[n].type = OpenApiFieldType(RegistryFields[n])
    /\ (app # NoApp /\ app.openapi.kind = "raises" /\ DOMAIN ContractFields = {}) =>
         DOMAIN report.schema.fields = {}

C17_Witness ==
  /\ report # NoReport
  /\ pydantic_model.kind = "broken"
  /\ app # NoApp
  /\ app.openapi.kind = "raises"
  /\ app.openapi.e = "RuntimeError"
  /\ report.raised = "none"

\* C18: when no source gives any field, the report has an empty field map and
\* no source (source = none), and no error is raised.
C18_EmptyReportHasNoSource ==
  (report # NoReport /\ DOMAIN ContractFields = {} /\ DOMAIN RegistryFields = {}) =>
    /\ report.raised = "none"
    /\ DOMAIN report.schema.fields = {}
    /\ "source" \notin DOMAIN report.schema

\* C19: for calls made one after the other with the same function name and
\* arguments, a call made less than ttl after the entry was stored returns
\* the stored result and does not execute the function, the first call made
\* ttl or more after it executes the function and replaces the entry, and
\* calls with different arguments never share an entry.
C19_CachedUntilTtl ==
  [][/\ last_step' = "hit" =>
          LET call == returned'.call
          IN /\ returned'.result = cache[call.cache_key].result
             /\ now - stored_at[call.cache_key] < Ttl
             /\ returned'.result.name = call.name
             /\ returned'.result.args = call.args
     /\ last_step' = "miss" =>
          \A call \in inflight' :
            call.cache_key \in DOMAIN cache => now - stored_at[call.cache_key] >= Ttl
     /\ last_step' = "stored" =>
          cache'[returned'.call.cache_key].result = returned'.result]_vars

\* pattern occurs somewhere in key
Occurs(pattern, key) ==
  \E i, j \in 0..Len(key) : i <= j /\ SubSeq(key, i + 1, j) = pattern

\* C20: clear_cache() removes every entry, clear_cache(pattern) removes the
\* entries whose key contains pattern and leaves the others as they are; both
\* return the number of entries removed, and a call for a key that is not in
\* the cache, as every removed key is, executes the wrapped function again.
C20_ClearRemovesMatching ==
  [][/\ last_step' = "cleared" =>
          LET gone == {key \in DOMAIN cache :
                         cleared'.pattern = None \/ Occurs(cleared'.pattern.s, key)}
          IN /\ cache' = Without(cache, gone)
             /\ cache_ttl' = Without(cache_ttl, gone)
             /\ cleared'.count = Cardinality(gone)
     /\ \A name \in FuncNames, a \in CacheArgs :
          (last_step' = "hit" /\ returned'.call.cache_key = CacheKey(name, a)) =>
            CacheKey(name, a) \in DOMAIN cache]_vars

C20_Witness ==
  /\ last_step = "cleared"
  /\ cleared.pattern = PyStr(<<"a">>)
  /\ cleared.count = 1
  /\ DOMAIN cache = {CacheKey(<<"f", "b">>, ObjectId(1))}

\* the timestamps of a list that are less than one period old at time t
Recent(timestamps, t) == {i \in DOMAIN timestamps : t - timestamps[i] < Period}

\* C21: a request for a path that is not exempt is handed to the downstream
\* handler exactly when fewer than `calls` timestamps recorded for its client
\* are less than `period` seconds old; otherwise the answer is 429, the
\* handler is not invoked and no timestamp is recorded.
C21_ForwardedIffUnderLimit ==
  [][/\ last_step' = "exempt" <=> (dispatched' # dispatched /\ IsExempt(request'.path))
     /\ last_step' \in {"forwarded", "rejected"} =>
          LET ip == request'.client_ip
              recent == Recent(clients[ip], now)
          IN /\ last_step' = "forwarded" <=> Cardinality(recent) < Calls
             /\ last_step' = "forwarded" =>
                  /\ invoked' = invoked + 1
                  /\ Len(clients'[ip]) = Cardinality(recent) + 1
             /\ last_step' = "rejected" =>
                  /\ reply'.status_code = 429
                  /\ invoked' = invoked
                  /\ handling' = handling
                  /\ Len(clients'[ip]) = Cardinality(recent)
                  /\ \A i \in DOMAIN clients'[ip] : clients'[ip][i] # now \/ \E j \in recent : clients[ip][j] = now]_vars

C21_Witness ==
  /\ last_step = "rejected"
  /\ ~IsExempt(request.path)
  /\ request.client_ip = "10.0.0.1"
  /\ reply.status_code = 429
  /\ Len(clients["10.0.0.1"]) = Calls
  /\ invoked = Calls

\* C22: with dispatch calls overlapping in any way, no window of `period`
\* seconds holds more than `calls` recorded requests of one client, and the
\* X-RateLimit-Remaining of a forwarded response is calls minus the number of
\* timestamps recorded for the client, and is not negative.
C22_WindowNeverExceedsCalls ==
  /\ \A ip \in ClientIps, w \in 0..now :
       Cardinality({i \in DOMAIN accepted[ip] : w <= accepted[ip][i] /\ accepted[ip][i] < w + Period}) <= Calls
  /\ last_step = "responded" =>
       /\ reply.remaining = Calls - Len(clients[request.client_ip])
       /\ reply.remaining >= 0

C22_Witness ==
  /\ last_step = "responded"
  /\ handling # {}
  /\ reply.remaining = 0
  /\ Len(accepted[request.client_ip]) > Calls

\* C23: a dispatch leaves no timestamp of its client that is `period` seconds
\* old or older; whether it is accepted depends only on how many requests of
\* the client were accepted less than `period` seconds ago, and a rejected
\* request adds nothing to the record.
C23_AcceptedAgainAfterPeriod ==
  [][last_step' \in {"forwarded", "rejected"} =>
       LET ip == request'.client_ip
       IN /\ \A i \in DOMAIN clients'[ip] : now - clients'[ip][i] < Period
          /\ last_step' = "forwarded" <=> Cardinality(Recent(accepted[ip], now)) < Calls
          /\ last_step' = "rejected" =>
               /\ accepted' = accepted
               /\ clients'[ip] = SelectSeq(clients[ip], LAMBDA timestamp : now - timestamp < Period)]_vars

C23_Witness ==
  /\ last_step = "forwarded"
  /\ request.client_ip = "10.0.0.1"
  /\ accepted["unknown"] = <<>>
  /\ dispatched = Calls + 2
  /\ invoked = Calls + 1
  /\ Len(accepted["10.0.0.1"]) = Calls + 1

\* C24: bulk_delete_documents does not fail on ids that are no identifier:
\* the identifiers among the ids, and only they, go to the store in one
\* delete; total is the number of ids listed; and when none is an identifier
\* the store receives no delete and deleted_count is 0.
C24_InvalidIdsSkipped ==
  outcome # None =>
    LET valid == {i \in DOMAIN document_ids :
                    \E n \in 0..MaxObjectId : document_ids[i].s = ObjectIdStr(n)}
        sent == {ObjectId(n) : n \in {m \in 0..MaxObjectId :
                    \E i \in valid : document_ids[i].s = ObjectIdStr(m)}}
    IN /\ outcome.raised = "none"
       /\ outcome.total = Len(document_ids)
       /\ valid = {} =>
            /\ deletes = <<>>
            /\ outcome.deleted_count = 0
            /\ collection = initial
       /\ valid # {} =>
            /\ Len(deletes) = 1
            /\ Len(deletes[1]) = Cardinality(valid)
            /\ {deletes[1][i] : i \in DOMAIN deletes[1]} = sent
            /\ collection = SelectSeq(initial, LAMBDA d : d["_id"] \notin sent)
            /\ outcome.deleted_count = Len(initial) - Len(collection)

C24_Witness ==
  /\ outcome # None
  /\ document_ids = <<PyStr("invalid_id_1"), PyStr(ObjectIdStr(1))>>
  /\ Len(initial) = 2
  /\ outcome.deleted_count = 1
  /\ outcome.total = 2
  /\ Len(deletes) = 1

\* C25: every document of every page of a cursor traversal satisfies the
\* filter the caller gave, whether the page was asked for with a cursor or
\* without.
C25_PagesSatisfyCallerQuery ==
  \A p \in DOMAIN pages : \A i \in DOMAIN pages[p].documents :
    Matches(pages[p].documents[i], query)

\* C26: a listing with `fields` returns the documents the same listing gives
\* without them, in the same order, each cut to the projected keys and _id,
\* with the same total, has_more and next_cursor.
C26_ProjectionOnlyCutsKeys ==
  (projected # None /\ projected.plain # None /\ fields_arg # <<>>) =>
    LET with == projected.result
        plain == projected.plain
    IN /\ Len(with.documents) = Len(plain.documents)
       /\ \A i \in DOMAIN with.documents :
            /\ "_id" \in DOMAIN with.documents[i]
            /\ with.documents[i] = Project(plain.documents[i], fields_arg)
       /\ with.total = plain.total
       /\ with.has_more = plain.has_more
       /\ with.next_cursor = plain.next_cursor

\* C27: a query string that is not empty gives the store either the
\* normalised JSON object, when it parses to one, or the text search: a $or
\* of case-insensitive regex conditions on the searchable fields; it never
\* gives the empty filter unless it is the JSON object {}.
C27_QueryStringNeverMatchAll ==
  (response # NoResponse /\ query_string.chars # <<>>) =>
    IF query_string.text.j = "object"
    THEN query = Normalized(JsonLoads(query_string.text)).kv
    ELSE /\ DOMAIN query = {"$or"}
         /\ {query["$or"].alts[i] : i \in DOMAIN query["$or"].alts} =
              LET searchable == get_searchable_fields(collection)
              IN {(searchable[i] :> RegexCond(query_string.chars)) : i \in DOMAIN searchable}

\* the documents that come after document d in the sequence s
Following(s, d) ==
  LET pos == CHOOSE i \in DOMAIN s : s[i] = d
  IN {s[i] : i \in (pos + 1)..Len(s)}

\* C28: when the last row of a page has a sort_field value that the token
\* carries as a string (datetime, ObjectId) or that is null or missing, the
\* filter the next request builds from the token selects exactly the
\* documents that follow that row in the store's sort order.
C28_PositionSelectsFollowing ==
  \A i \in DOMAIN pages :
    (/\ i + 1 \in DOMAIN pages
     /\ Get(pages[i].documents[Len(pages[i].documents)], SortFieldFinal).t
          \in {"date", "oid", "none"}) =>
      LET last_row == pages[i].documents[Len(pages[i].documents)]
          ordered == Sort(Find(collection, query), SortFieldFinal, sort_direction)
      IN /\ pages[i + 1].raised = "none"
         /\ Range(Find(collection, pages[i + 1].mongo_query)) = Following(ordered, last_row)

\* C29: when a call of a wrapped function starts while another call with the
\* same arguments is awaiting the function, the function is not executed a
\* second time: no two executions for the same function and arguments are in
\* flight together.
C29_OverlappingCallsExecuteOnce ==
  \A c1, c2 \in inflight : (c1.name = c2.name /\ c1.args = c2.args) => c1 = c2

\* C30: _cache and _cache_ttl have the same keys after any sequence of
\* cached calls, raising or not, and clear_cache calls, with a pattern or
\* without.
C30_SameKeySets == DOMAIN cache = DOMAIN cache_ttl

C30_Witness ==
  /\ last_step = "raised"
  /\ returned.call.cache_key \notin DOMAIN cache
  /\ DOMAIN cache # {}
  /\ runs = MaxRuns

====
